---------------------------- MODULE Spec2Model ----------------------------
(***************************************************************************)
(* FridgeOS state machine (fridgeos/statemachine.py): the control loop     *)
(* thread (StateMachineServer.run) and the HTTP request handlers, which    *)
(* share the runtime state of one StateMachineServer without any lock.     *)
(*                                                                         *)
(* Optional values (Python None / a missing dict key) are sequences:       *)
(*   <<>> is None or "key absent", <<x>> is "present with value x".        *)
(* A temperature entry is therefore <<>> (no key), <<<<>>>> (key present,  *)
(* value None) or <<<<v>>>> (key present, number v).                       *)
(***************************************************************************)
EXTENDS Integers, Sequences, FiniteSets, TLC

-----------------------------------------------------------------------------
(* Bounds of the exploration *)

\* the wall clock (time.time()) runs over 0..MaxTime
MaxTime == 1

\* the requests the handler serves in one behaviour
MaxRequests == 1

\* the clock's range when only the control loop runs
MaxLoopTime == 2

\* the requests served when only the request handlers run
MaxManual == 2

-----------------------------------------------------------------------------
(* Optional values *)

None == <<>>
Some(x) == <<x>>
Absent == <<>>
Null == <<None>>
Reading(v) == <<Some(v)>>

EmptyMap == [x \in {} |-> None]


-----------------------------------------------------------------------------
(* The state machine configuration documents explored (TOML files).  Each   *)
(* is what _load_settings, _load_states, _load_heaters and                  *)
(* _load_transitions return for it.                                         *)

\* _load_states: the [states.*] tables in declaration order, PAUSED appended
StateOrder == <<"A", "B", "C", "PAUSED">>

states ==
  [A      |-> [T1 |-> 2],
   B      |-> [T1 |-> 1, H2 |-> 3],
   C      |-> [H2 |-> -1],
   PAUSED |-> EmptyMap]

StateNames == DOMAIN states

\* _load_heaters: H1 is PID-controlled on thermometer T1, H2 is direct
HeaterOrder == <<"H1", "H2">>

heaters ==
  [H1 |-> [pid |-> TRUE, corresponding_thermometer |-> "T1",
           Kp |-> 2, Ki |-> 1, max_value |-> 1],
   H2 |-> [pid |-> FALSE]]

HeaterNames == DOMAIN heaters
PidHeaters == {h \in HeaterNames : heaters[h].pid}
DirectHeaters == {h \in HeaterNames : ~heaters[h].pid}

Thermometers == {"T1"}

\* the HAL's max_value of each heater (HALServer.get_heater_max_values)
HalMax == [H1 |-> 1, H2 |-> 2]

\* _parse_criterion: sensor, operator, value
Crit(s, o, v) == [sensor |-> s, op |-> o, value |-> v]

Trans(f, t, c, m) == [from |-> f, to |-> t, criteria |-> c, max_seconds |-> m]

\* The configurations: the [[transitions]] list and the [settings].
Configs ==
  << \* 1: no password; criteria with and without timeout
     [transitions |->
        << Trans({"A"}, "B", <<Crit("T1", ">", 1)>>, Some(0)),
           Trans({"B", "C"}, "A", <<Crit("T1", "<", 1)>>, None) >>,
      state_change_password |-> None, polling_interval |-> 1],
     \* 2: password set; two transitions declared for the same (from, to)
     [transitions |->
        << Trans({"A"}, "B", <<Crit("T1", ">", 1)>>, None),
           Trans({"A"}, "B", <<Crit("T1", "<", 0)>>, Some(0)) >>,
      state_change_password |-> Some("hunter2"), polling_interval |-> 1],
     \* 3: the empty string as password; a transition to an undeclared state
     [transitions |->
        << Trans({"A"}, "X", <<Crit("T1", ">", 1)>>, None),
           Trans({"A", "C"}, "B", <<Crit("T1", "<", 1)>>, None) >>,
      state_change_password |-> Some(""), polling_interval |-> 1] >>

ConfigIds == 1..Len(Configs)

\* Further [[transitions]] lists, explored with the control loop alone.
TimingConfigs ==
  << \* 4: a criterion that never holds with a timeout; a transition to PAUSED
     [transitions |->
        << Trans({"A"}, "B", <<Crit("T1", "<", 0)>>, Some(1)),
           Trans({"B"}, "PAUSED", <<Crit("T1", ">", 1)>>, None) >>,
      state_change_password |-> None, polling_interval |-> 1],
     \* 5: an empty criteria list with a timeout, declared before transitions
     \* that can fire from the same state and from its target
     [transitions |->
        << Trans({"A"}, "B", <<>>, Some(1)),
           Trans({"A", "B"}, "C", <<Crit("T1", ">", 1)>>, None),
           Trans({"C"}, "A", <<Crit("T1", "<", 1)>>, Some(0)) >>,
      state_change_password |-> None, polling_interval |-> 1],
     \* 6: two transitions that can fire in the same tick
     [transitions |->
        << Trans({"A"}, "B", <<Crit("T1", ">", 1)>>, Some(1)),
           Trans({"A", "B"}, "C", <<Crit("T1", ">", 1)>>, Some(0)),
           Trans({"A", "C"}, "A", <<Crit("T1", "<", 1)>>, None) >>,
      state_change_password |-> None, polling_interval |-> 1],
     \* 7: the first state goes to PAUSED on a hot reading, and on a cold one
     \* to a state that defines no setpoint for the PID heater
     [transitions |->
        << Trans({"A"}, "PAUSED", <<Crit("T1", ">", 1)>>, None),
           Trans({"A"}, "C", <<Crit("T1", "<", 1)>>, None) >>,
      state_change_password |-> None, polling_interval |-> 1] >>

AllConfigs == Configs \o TimingConfigs
LoopConfigIds == 1..Len(AllConfigs)


-----------------------------------------------------------------------------
(* Pure functions of the state machine *)

\* _load_transitions: state_timeouts[(from_state, to)] = max_seconds, written
\* in declaration order, so the last declaration for a pair wins.
state_timeouts(transitions, from_state, to) ==
  LET hits == {i \in 1..Len(transitions) :
                 /\ transitions[i].max_seconds # None
                 /\ from_state \in transitions[i].from
                 /\ transitions[i].to = to}
  IN IF hits = {} THEN None
     ELSE transitions[CHOOSE i \in hits : \A j \in hits : j <= i].max_seconds

\* a gate that also admits a request carrying no password
validate_password_absent_ok(required_password, provided_password) ==
  \/ required_password = None
  \/ provided_password = None
  \/ provided_password = required_password

\* _validate_password
validate_password(required_password, provided_password) ==
  IF required_password = None THEN TRUE
  ELSE IF provided_password = None THEN FALSE
  ELSE provided_password = required_password

\* a test that finds every configured password falsy
Truthy_never(required_password) == FALSE

\* Python truthiness of self.required_password (None and "" are falsy)
Truthy(required_password) ==
  required_password # None /\ required_password # Some("")

\* a comparison that reads a missing or null reading as 0
check_criterion_null_as_zero(criterion, temperatures) ==
  LET T == IF temperatures[criterion.sensor] \in {<<>>, <<<<>>>>} THEN 0
           ELSE temperatures[criterion.sensor][1][1]
  IN IF criterion.op = "<" THEN T < criterion.value ELSE T > criterion.value

\* _check_criterion on one get_temperatures() result
check_criterion(criterion, temperatures) ==
  IF temperatures[criterion.sensor] = Absent THEN FALSE
  ELSE IF temperatures[criterion.sensor] = Null THEN FALSE
  ELSE IF criterion.op = "<"
       THEN temperatures[criterion.sensor][1][1] < criterion.value
       ELSE temperatures[criterion.sensor][1][1] > criterion.value

Clamp(v, lo, hi) == IF v > hi THEN hi ELSE IF v < lo THEN lo ELSE v

\* simple_pid PID.__call__ with Kd = 0 and the sample interval taken as one
\* unit: the integral is clamped to output_limits, then the output is.
pid_integral(h, sp, integ, T) ==
  Clamp(integ + heaters[h].Ki * (sp - T), 0, heaters[h].max_value)

pid_output(h, sp, integ, T) ==
  Clamp(heaters[h].Kp * (sp - T) + pid_integral(h, sp, integ, T),
        0, heaters[h].max_value)

\* a make_transition without its membership test
make_transition_accepts_any(new_state) == TRUE

\* make_transition: if new_state not in self.states: return False (760-762)
make_transition_accepts(new_state) == new_state \in StateNames

\* an update_heaters that leaves the counter alone
next_update_num_skipped(n) == n

\* self.update_num += 1 (836)
next_update_num(n) == n + 1

\* update_heater_setpoints, the body of its loop for one heater: the new
\* PID setpoint of h
setpoint_for_stale(h, new_state, old) == old

setpoint_for(h, new_state, old) ==
  IF new_state = "PAUSED" THEN old
  ELSE IF heaters[h].pid
          /\ heaters[h].corresponding_thermometer \in DOMAIN states[new_state]
       THEN states[new_state][heaters[h].corresponding_thermometer]
       ELSE old

\* a latch that is cleared by a state that does not define the heater
current_value_for_cleared(h, new_state, old) ==
  IF new_state # "PAUSED" /\ ~heaters[h].pid /\ h \in DOMAIN states[new_state]
  THEN Some(states[new_state][h])
  ELSE None

\* ... and the new latched current_value of h (None: no 'current_value' key)
current_value_for(h, new_state, old) ==
  IF new_state = "PAUSED" THEN old
  ELSE IF ~heaters[h].pid /\ h \in DOMAIN states[new_state]
       THEN Some(states[new_state][h])
       ELSE old


-----------------------------------------------------------------------------
(* State *)

VARIABLES
  cfg,                   \* which configuration document was loaded
  limits,                \* how far the exploration follows clock and requests
  hal,                   \* the HAL server: its drivers and the request served
  probe,                 \* one _check_criterion call: arguments and result
  now,                   \* time.time()
  \* StateMachineServer fields
  current_state, state_entry_time, current_temperatures,
  current_heater_values, update_num,
  setpoint,              \* heaters[h]['pid_controller'].setpoint
  integral,              \* heaters[h]['pid_controller']._integral
  current_value,         \* heaters[h]['current_value'] (None: key not set)
  \* the control loop thread (run): position and locals
  l_pc, l_now, l_ti, l_timeout, l_by, l_hi, l_wake,
  l_start_num,           \* update_num when the tick began
  l_result,              \* how the tick ended: "ok" or where it raised
  hal_writes,            \* set_heater_value calls of the loop in this tick
  paused_write,          \* a loop write was emitted while current_state = PAUSED
  l_after_pause,         \* the tick began after pause_system returned
  \* the request handler (uvicorn event loop): position and locals
  h_pc, h_kind,
  h_new,                 \* the state the request names
  h_pw,                  \* the password the request carries
  h_hi, h_heater, h_value,
  h_time,                \* the time.time() its make_transition stored
  h_resp,                \* status code of the response being sent (0: none)
  h_count,               \* requests received so far
  pause_returned         \* pause_system returned True and no request came since

runtime == <<current_state, state_entry_time, current_temperatures,
             current_heater_values, update_num, setpoint, integral,
             current_value>>
loopvars == <<l_pc, l_now, l_ti, l_timeout, l_by, l_hi, l_wake,
              l_start_num, l_result, hal_writes, paused_write>>
handlervars == <<h_pc, h_kind, h_new, h_pw, h_hi, h_heater, h_value, h_time,
                 h_resp, h_count>>
envvars == <<limits, hal, probe>>
vars == <<cfg, now, runtime, loopvars, l_after_pause, handlervars,
          pause_returned, envvars>>

transitions == AllConfigs[cfg].transitions
required_password == AllConfigs[cfg].state_change_password
polling_interval == AllConfigs[cfg].polling_interval

TempVals == {0, 2}
TempEntries == {Absent, Null} \cup {Reading(v) : v \in TempVals}
\* the results hal_client.get_temperatures() may return
TempListings == [Thermometers -> TempEntries]

\* the results hal_client.get_heater_values() may return: what the drivers
\* read back
HeaterReadVals == {0}
HeaterListings == [HeaterNames -> HeaterReadVals]

NoWrites == [h \in HeaterNames |-> None]

\* __init__: current_state is the first key of states, the setpoints of that
\* state are applied, the loop thread is started.
Started ==
  /\ now = 0
  /\ current_state = StateOrder[1]
  /\ state_entry_time = 0
  /\ current_temperatures = [t \in Thermometers |-> Absent]
  /\ current_heater_values = [h \in HeaterNames |-> Absent]
  /\ update_num = 0
  /\ setpoint = [h \in PidHeaters |-> setpoint_for(h, StateOrder[1], 0)]
  /\ integral = [h \in PidHeaters |-> 0]
  /\ current_value = [h \in DirectHeaters |-> current_value_for(h, StateOrder[1], None)]
  /\ l_pc = "sleep" /\ l_now = 0 /\ l_ti = 0 /\ l_timeout = None
  /\ l_by = "none" /\ l_hi = 0 /\ l_wake = 0 /\ l_start_num = 0
  /\ l_result = "none"
  /\ hal_writes = NoWrites /\ paused_write = FALSE /\ l_after_pause = FALSE
  /\ h_pc = "idle" /\ h_kind = "none" /\ h_new = "none" /\ h_pw = None
  /\ h_hi = 0
  /\ h_heater = "none" /\ h_value = 0
  /\ h_time = 0 /\ h_resp = 0 /\ h_count = 0 /\ pause_returned = FALSE

\* the HAL server and the criterion call are not looked at
HalOff == [pc |-> "off"]
ProbeOff == [pc |-> "off"]

Init ==
  /\ cfg \in ConfigIds
  /\ limits = [time |-> MaxTime, requests |-> MaxRequests]
  /\ Started
  /\ hal = HalOff /\ probe = ProbeOff

\* time.sleep(polling_interval) in run (882): the clock counts in units that
\* a tick's own duration does not reach, so time passes while the loop sleeps
Tick ==
  /\ l_pc = "sleep" /\ now < l_wake /\ now < limits.time
  /\ now' = now + 1
  /\ UNCHANGED <<cfg, runtime, loopvars, l_after_pause, handlervars,
                 pause_returned, envvars>>

-----------------------------------------------------------------------------
(* The control loop: run -> attempt_transition -> check_transitions ->      *)
(* make_transition -> update_heaters, one action per statement that reads   *)
(* or writes shared state or calls the HAL.                                 *)

LoopFrame == UNCHANGED <<cfg, now, handlervars, pause_returned, envvars>>

\* a run without the except clause: the exception ends the thread
Raised_uncaught(where) ==
  /\ l_pc' = "dead" /\ l_result' = where /\ UNCHANGED l_wake
  /\ l_ti' = 0 /\ l_timeout' = None /\ l_hi' = 0

\* an exception reaches run's except clause (880-881): the tick is over
Raised(where) ==
  /\ l_pc' = "tick_done" /\ l_result' = where /\ UNCHANGED l_wake
  /\ l_ti' = 0 /\ l_timeout' = None /\ l_hi' = 0

\* the tick ran to the end of update_heaters
Completed ==
  /\ l_pc' = "tick_done" /\ l_result' = "ok" /\ UNCHANGED l_wake
  /\ l_ti' = 0 /\ l_timeout' = None /\ l_hi' = 0

\* time.sleep(self.polling_interval) (882); what the finished tick did is
\* forgotten
run_sleep ==
  /\ l_pc = "tick_done"
  /\ l_pc' = "sleep" /\ l_wake' = now + polling_interval
  /\ l_result' = "none" /\ l_by' = "none" /\ l_start_num' = 0
  /\ hal_writes' = NoWrites /\ paused_write' = FALSE /\ l_after_pause' = FALSE
  /\ UNCHANGED <<runtime, l_now, l_ti, l_timeout, l_hi>>
  /\ LoopFrame

\* run wakes up; check_transitions takes now and tests for PAUSED (729-734)
check_transitions_begin ==
  /\ l_pc = "sleep" /\ now >= l_wake
  /\ l_now' = now
  /\ l_start_num' = update_num
  /\ l_after_pause' = pause_returned
  /\ UNCHANGED <<hal_writes, paused_write, l_by, l_timeout, l_hi>>
  /\ IF current_state = "PAUSED"
     THEN l_pc' = "uh_temps" /\ l_ti' = 0
     ELSE l_pc' = "ct_from" /\ l_ti' = 1
  /\ UNCHANGED <<runtime, l_wake, l_result>>
  /\ LoopFrame

\* a timeout test that fires as soon as the limit is reached
timeout_reached(timeout, t, entry_time) ==
  timeout # None /\ t - entry_time >= timeout[1]

\* timeout is not None and now - self.state_entry_time > timeout (745)
timeout_exceeded(timeout, t, entry_time) ==
  timeout # None /\ t - entry_time > timeout[1]

\* a loop over the transitions that leaves one out
next_transition_skipping(i) == i + 2

\* for t in self.criteria: the transition declared after the i-th
next_transition(i) == i + 1

\* for t in self.criteria: if self.current_state in t['from'] (736-737)
check_transitions_from ==
  /\ l_pc = "ct_from"
  /\ IF l_ti > Len(transitions)
     THEN l_pc' = "uh_temps" /\ l_ti' = 0
     ELSE IF current_state \in transitions[l_ti].from
          THEN l_pc' = "ct_timeout" /\ l_ti' = l_ti
          ELSE l_pc' = "ct_from" /\ l_ti' = next_transition(l_ti)
  /\ UNCHANGED <<runtime, l_now, l_timeout, l_by, l_hi, l_wake,
                 l_start_num, l_result, hal_writes, paused_write, l_after_pause>>
  /\ LoopFrame

\* timeout = self.state_timeouts.get((self.current_state, t['to'])) (739),
\* then all(self._check_criterion(c) for c in t['criteria']) (741): each
\* criterion is evaluated on its own get_temperatures() result, up to the
\* first that is false; all() of an empty list is True
all_criteria(criteria, listings) ==
  \A i \in 1..Len(criteria) : check_criterion(criteria[i], listings[i])

check_transitions_criteria ==
  /\ l_pc = "ct_timeout"
  /\ l_timeout' = state_timeouts(transitions, current_state, transitions[l_ti].to)
  /\ \E listings \in [1..Len(transitions[l_ti].criteria) -> TempListings] :
       IF all_criteria(transitions[l_ti].criteria, listings)
       THEN l_pc' = "at_make" /\ l_by' = "criteria"
       ELSE l_pc' = "ct_elapsed" /\ l_by' = l_by
  /\ UNCHANGED <<runtime, l_now, l_ti, l_hi, l_wake, l_start_num, l_result,
                 hal_writes, paused_write, l_after_pause>>
  /\ LoopFrame

\* hal_client.get_temperatures() raises inside _check_criterion
check_transitions_criteria_raises ==
  /\ l_pc = "ct_timeout"
  /\ transitions[l_ti].criteria # <<>>
  /\ Raised("raised_criterion")
  /\ UNCHANGED <<runtime, l_now, l_by, l_start_num, hal_writes, paused_write,
                 l_after_pause>>
  /\ LoopFrame

\* if timeout is not None and now - self.state_entry_time > timeout (745-747)
check_transitions_elapsed ==
  /\ l_pc = "ct_elapsed"
  /\ IF timeout_exceeded(l_timeout, l_now, state_entry_time)
     THEN l_pc' = "at_make" /\ l_by' = "timeout" /\ l_ti' = l_ti
     ELSE l_pc' = "ct_from" /\ l_by' = l_by /\ l_ti' = next_transition(l_ti)
  /\ l_timeout' = None
  /\ UNCHANGED <<runtime, l_now, l_hi, l_wake, l_start_num, l_result,
                 hal_writes, paused_write, l_after_pause>>
  /\ LoopFrame


\* update_heater_setpoints(new_state), its loop body for the heater l_hi/h_hi
\* (687-708)
update_heater_setpoints_step(h, new_state) ==
  /\ setpoint' = [x \in PidHeaters |->
                    IF x = h THEN setpoint_for(h, new_state, setpoint[x])
                    ELSE setpoint[x]]
  /\ current_value' = [x \in DirectHeaters |->
                    IF x = h THEN current_value_for(h, new_state, current_value[x])
                    ELSE current_value[x]]

\* attempt_transition calls make_transition(transition['to']): an undeclared
\* state is refused (760-762), else self.current_state = new_state (764)
loop_make_transition_state ==
  /\ l_pc = "at_make"
  /\ IF ~make_transition_accepts(transitions[l_ti].to)
     THEN /\ l_pc' = "uh_temps" /\ l_ti' = 0
          /\ UNCHANGED current_state
     ELSE /\ l_pc' = "mt_time" /\ l_ti' = l_ti
          /\ current_state' = transitions[l_ti].to
  /\ UNCHANGED <<state_entry_time, current_temperatures, current_heater_values,
                 update_num, setpoint, integral, current_value>>
  /\ UNCHANGED <<l_now, l_timeout, l_by, l_hi, l_wake, l_start_num,
                 l_result, hal_writes, paused_write, l_after_pause>>
  /\ LoopFrame

\* self.state_entry_time = time.time() (765)
loop_make_transition_time ==
  /\ l_pc = "mt_time"
  /\ state_entry_time' = now
  /\ IF transitions[l_ti].to = "PAUSED"
     THEN l_pc' = "uh_temps" /\ l_ti' = 0 /\ l_hi' = 0
     ELSE l_pc' = "mt_sp" /\ l_ti' = l_ti /\ l_hi' = 1
  /\ UNCHANGED <<current_state, current_temperatures, current_heater_values,
                 update_num, setpoint, integral, current_value>>
  /\ UNCHANGED <<l_now, l_timeout, l_by, l_wake, l_start_num, l_result,
                 hal_writes, paused_write, l_after_pause>>
  /\ LoopFrame

\* self.update_heater_setpoints(new_state) (766), one heater per step
loop_make_transition_setpoints ==
  /\ l_pc = "mt_sp"
  /\ update_heater_setpoints_step(HeaterOrder[l_hi], transitions[l_ti].to)
  /\ IF l_hi = Len(HeaterOrder)
     THEN l_pc' = "uh_temps" /\ l_ti' = 0 /\ l_hi' = 0
     ELSE l_pc' = "mt_sp" /\ l_ti' = l_ti /\ l_hi' = l_hi + 1
  /\ UNCHANGED <<current_state, state_entry_time, current_temperatures,
                 current_heater_values, update_num, integral>>
  /\ UNCHANGED <<l_now, l_timeout, l_by, l_wake, l_start_num, l_result,
                 hal_writes, paused_write, l_after_pause>>
  /\ LoopFrame

\* update_heaters: self.current_temperatures = get_temperatures() (821)
update_heaters_temperatures ==
  /\ l_pc = "uh_temps"
  /\ \E temps \in TempListings : current_temperatures' = temps
  /\ l_pc' = "uh_values"
  /\ UNCHANGED <<current_state, state_entry_time, current_heater_values,
                 update_num, setpoint, integral, current_value>>
  /\ UNCHANGED <<l_now, l_ti, l_timeout, l_by, l_hi, l_wake, l_start_num,
                 l_result, hal_writes, paused_write, l_after_pause>>
  /\ LoopFrame

\* get_temperatures() raises in update_heaters: nothing catches it before run
update_heaters_temperatures_raises ==
  /\ l_pc = "uh_temps"
  /\ Raised("raised_temperatures")
  /\ UNCHANGED <<runtime, l_now, l_by, l_start_num, hal_writes, paused_write,
                 l_after_pause>>
  /\ LoopFrame

\* a failed read that empties the snapshot
heater_values_dropped(old) == [h \in HeaterNames |-> Absent]

\* get_heater_values() raises: the except clause only logs (832-833)
heater_values_on_failure(old) == old

\* current_heater_values.update(get_heater_values()), or the read raises and
\* is caught (827-833)
update_heaters_values ==
  /\ l_pc = "uh_values"
  /\ \/ \E values \in HeaterListings :
          current_heater_values' = [h \in HeaterNames |-> Some(values[h])]
     \/ current_heater_values' = heater_values_on_failure(current_heater_values)
  /\ l_pc' = "uh_count"
  /\ UNCHANGED <<current_state, state_entry_time, current_temperatures,
                 update_num, setpoint, integral, current_value>>
  /\ UNCHANGED <<l_now, l_ti, l_timeout, l_by, l_hi, l_wake, l_start_num,
                 l_result, hal_writes, paused_write, l_after_pause>>
  /\ LoopFrame

\* self.update_num += 1, then the PAUSED test (836-841)
update_heaters_count ==
  /\ l_pc = "uh_count"
  /\ update_num' = next_update_num(update_num)
  /\ IF current_state = "PAUSED"
     THEN Completed
     ELSE /\ l_pc' = "uh_heater" /\ l_hi' = 1
          /\ UNCHANGED <<l_ti, l_timeout, l_wake, l_result>>
  /\ UNCHANGED <<current_state, state_entry_time, current_temperatures,
                 current_heater_values, setpoint, integral, current_value>>
  /\ UNCHANGED <<l_now, l_by, l_start_num, hal_writes, paused_write,
                 l_after_pause>>
  /\ LoopFrame

\* a heater loop that switches an unlatched direct heater off
heater_command_default_zero(h, temps, sp, integ, cv) ==
  IF heaters[h].pid
  THEN LET T == temps[heaters[h].corresponding_thermometer]
       IN IF T = Absent \/ T = Null
          THEN [write |-> None, integral |-> integ[h]]
          ELSE [write |-> Some(pid_output(h, sp[h], integ[h], T[1][1])),
                integral |-> pid_integral(h, sp[h], integ[h], T[1][1])]
  ELSE [write |-> IF cv[h] = None THEN Some(0) ELSE cv[h], integral |-> 0]

\* a heater loop that steps the controller on 0 when there is no reading
heater_command_null_as_zero(h, temps, sp, integ, cv) ==
  IF heaters[h].pid
  THEN LET T == temps[heaters[h].corresponding_thermometer]
           v == IF T = Absent \/ T = Null THEN 0 ELSE T[1][1]
       IN [write |-> Some(pid_output(h, sp[h], integ[h], v)),
           integral |-> pid_integral(h, sp[h], integ[h], v)]
  ELSE [write |-> cv[h], integral |-> 0]

\* what update_heaters does for one heater (844-872): the value it writes
\* (None: the heater is skipped) and the PID integral after it
heater_command(h, temps, sp, integ, cv) ==
  IF heaters[h].pid
  THEN LET T == temps[heaters[h].corresponding_thermometer]
       IN IF T = Absent \/ T = Null
          THEN [write |-> None, integral |-> integ[h]]
          ELSE [write |-> Some(pid_output(h, sp[h], integ[h], T[1][1])),
                integral |-> pid_integral(h, sp[h], integ[h], T[1][1])]
  ELSE [write |-> cv[h], integral |-> 0]

AfterHeater ==
  IF l_hi = Len(HeaterOrder)
  THEN Completed
  ELSE /\ l_pc' = "uh_heater" /\ l_hi' = l_hi + 1
       /\ UNCHANGED <<l_ti, l_timeout, l_wake, l_result>>

\* the loop body of update_heaters for heater l_hi; the HAL write succeeds
update_heaters_heater ==
  /\ l_pc = "uh_heater"
  /\ LET h == HeaterOrder[l_hi]
         c == heater_command(h, current_temperatures, setpoint, integral,
                             current_value)
     IN /\ integral' = [x \in PidHeaters |->
                          IF x = h THEN c.integral ELSE integral[x]]
        /\ IF c.write = None
           THEN UNCHANGED <<hal_writes, paused_write>>
           ELSE /\ hal_writes' = [hal_writes EXCEPT ![h] = c.write]
                /\ paused_write' = (paused_write \/ current_state = "PAUSED")
  /\ AfterHeater
  /\ UNCHANGED <<current_state, state_entry_time, current_temperatures,
                 current_heater_values, update_num, setpoint, current_value>>
  /\ UNCHANGED <<l_now, l_by, l_start_num, l_after_pause>>
  /\ LoopFrame

\* ... the HAL write raises (driver failure, HAL unreachable)
update_heaters_heater_raises ==
  /\ l_pc = "uh_heater"
  /\ LET h == HeaterOrder[l_hi]
         c == heater_command(h, current_temperatures, setpoint, integral,
                             current_value)
     IN /\ c.write # None
        /\ integral' = [x \in PidHeaters |->
                          IF x = h THEN c.integral ELSE integral[x]]
        /\ hal_writes' = [hal_writes EXCEPT ![h] = c.write]
        /\ paused_write' = (paused_write \/ current_state = "PAUSED")
  /\ Raised("raised_write")
  /\ UNCHANGED <<current_state, state_entry_time, current_temperatures,
                 current_heater_values, update_num, setpoint, current_value>>
  /\ UNCHANGED <<l_now, l_by, l_start_num, l_after_pause>>
  /\ LoopFrame

LoopNext ==
  \/ check_transitions_begin
  \/ check_transitions_from
  \/ check_transitions_criteria
  \/ check_transitions_criteria_raises
  \/ check_transitions_elapsed
  \/ loop_make_transition_state
  \/ loop_make_transition_time
  \/ loop_make_transition_setpoints
  \/ update_heaters_temperatures
  \/ update_heaters_temperatures_raises
  \/ update_heaters_values
  \/ update_heaters_count
  \/ update_heaters_heater
  \/ update_heaters_heater_raises
  \/ run_sleep


-----------------------------------------------------------------------------
(* The request handlers.  They are coroutines without an await, so the     *)
(* event loop runs them one at a time; the control loop thread runs         *)
(* between any two of their statements.                                     *)

\* the inputs requests carry
ReqStates == StateNames \cup {"X"}
ReqPasswords == {None, Some("hunter2"), Some("")}
ReqHeaters == {"H1", "HX"}
ReqValues == {3}
FormStates == {"B", "X"}
LinkStates == {"C", "X"}
ResumeTargets == {None, Some("B"), Some("PAUSED"), Some("X")}

HandlerFrame == UNCHANGED <<cfg, now, loopvars, envvars>>

\* a request of this kind, naming new_state and carrying password, arrives
Arrives(kind, new_state, password) ==
  /\ h_pc = "idle" /\ h_count < limits.requests
  /\ h_kind' = kind /\ h_count' = h_count + 1
  /\ h_new' = new_state /\ h_pw' = password /\ h_time' = 0
  /\ IF kind = "pause" THEN UNCHANGED <<pause_returned, l_after_pause>>
     ELSE pause_returned' = FALSE /\ l_after_pause' = FALSE

\* the handler answers with status code
Respond(code) ==
  /\ h_pc' = "done" /\ h_resp' = code
  /\ h_hi' = 0 /\ h_heater' = "none" /\ h_value' = 0

\* the handler enters make_transition(h_new) past its check of states
EnterMakeTransition ==
  /\ h_pc' = "mt_state"
  /\ h_hi' = 0 /\ h_heater' = "none" /\ h_value' = 0
  /\ UNCHANGED h_resp

\* PUT /state {state, password?} (186-215), up to make_transition's check
set_state(state, password) ==
  /\ Arrives("set_state", state, password)
  /\ IF ~validate_password(required_password, password) THEN Respond(401)
     ELSE IF ~make_transition_accepts(state) THEN Respond(400)
     ELSE EnterMakeTransition
  /\ UNCHANGED runtime
  /\ HandlerFrame

\* POST /control/set, form fields state and password (414-461)
set_state_form(state, password) ==
  /\ Arrives("set_state_form", state, password) /\ password # None
  /\ IF ~validate_password(required_password, password) THEN Respond(401)
     ELSE IF ~make_transition_accepts(state) THEN Respond(400)
     ELSE EnterMakeTransition
  /\ UNCHANGED runtime
  /\ HandlerFrame

\* GET /control/{state} (463-508)
set_state_link(state) ==
  /\ Arrives("set_state_link", state, None)
  /\ IF Truthy(required_password) THEN Respond(401)
     ELSE IF ~make_transition_accepts(state) THEN Respond(400)
     ELSE EnterMakeTransition
  /\ UNCHANGED runtime
  /\ HandlerFrame

\* a pause_system that always runs make_transition
pause_system_never_early == FALSE

\* pause_system: if self.current_state == 'PAUSED': return True (771-773)
pause_system_returns_early == current_state = "PAUSED"

\* POST /pause (246-263) -> pause_system (769-775)
pause_system_endpoint ==
  /\ Arrives("pause", "PAUSED", None)
  /\ IF pause_system_returns_early THEN Respond(200)
     ELSE EnterMakeTransition
  /\ UNCHANGED runtime
  /\ HandlerFrame

\* resume_system's default target: the first state that is not PAUSED (786-788)
safe_states == SelectSeq(StateOrder, LAMBDA s : s # "PAUSED")

\* POST /resume {target_state?} (265-283) -> resume_system (777-799); the
\* HTTPException(400) of a failure is raised inside the try and caught by
\* its except Exception, which answers 500
resume_target(target_state) ==
  IF target_state # None THEN target_state[1]
  ELSE IF safe_states # <<>> THEN safe_states[1] ELSE "none"

\* a resume_system that only looks at its target
resume_system_refuses_target(target_state) ==
  resume_target(target_state) \notin StateNames

\* resume_system returns False before make_transition: not paused (779-781),
\* no default (790-792), target not declared (794-796)
resume_system_refuses(target_state) ==
  \/ current_state # "PAUSED"
  \/ target_state = None /\ safe_states = <<>>
  \/ resume_target(target_state) \notin StateNames

resume_system_endpoint(target_state) ==
  /\ Arrives("resume", resume_target(target_state), None)
  /\ IF resume_system_refuses(target_state) THEN Respond(500)
     ELSE IF ~make_transition_accepts(resume_target(target_state))
          THEN Respond(500)
     ELSE EnterMakeTransition
  /\ UNCHANGED runtime
  /\ HandlerFrame

\* make_transition in the handler: self.current_state = new_state (764)
handler_make_transition_state ==
  /\ h_pc = "mt_state"
  /\ current_state' = h_new
  /\ h_pc' = "mt_time"
  /\ UNCHANGED <<state_entry_time, current_temperatures, current_heater_values,
                 update_num, setpoint, integral, current_value>>
  /\ UNCHANGED <<h_kind, h_new, h_pw, h_hi, h_heater, h_value, h_time, h_resp,
                 h_count, pause_returned, l_after_pause>>
  /\ HandlerFrame

\* self.state_entry_time = time.time() (765); update_heater_setpoints returns
\* at once for PAUSED (682-684) and make_transition returns True
handler_make_transition_time ==
  /\ h_pc = "mt_time"
  /\ state_entry_time' = now /\ h_time' = now
  /\ IF h_new = "PAUSED"
     THEN Respond(200)
     ELSE /\ h_pc' = "mt_sp" /\ h_hi' = 1
          /\ UNCHANGED <<h_heater, h_value, h_resp>>
  /\ UNCHANGED <<current_state, current_temperatures, current_heater_values,
                 update_num, setpoint, integral, current_value>>
  /\ UNCHANGED <<h_kind, h_new, h_pw, h_count, pause_returned, l_after_pause>>
  /\ HandlerFrame

\* update_heater_setpoints(new_state) (766), one heater per step; after the
\* last one make_transition returns True and the endpoint answers 200
handler_make_transition_setpoints ==
  /\ h_pc = "mt_sp"
  /\ update_heater_setpoints_step(HeaterOrder[h_hi], h_new)
  /\ IF h_hi = Len(HeaterOrder)
     THEN Respond(200)
     ELSE /\ h_pc' = "mt_sp" /\ h_hi' = h_hi + 1
          /\ UNCHANGED <<h_heater, h_value, h_resp>>
  /\ UNCHANGED <<current_state, state_entry_time, current_temperatures,
                 current_heater_values, update_num, integral>>
  /\ UNCHANGED <<h_kind, h_new, h_pw, h_time, h_count, pause_returned,
                 l_after_pause>>
  /\ HandlerFrame

\* POST /heater/set (285-319) -> set_heater_value (801-817): the HAL write
set_heater_value_endpoint(heater_name, value) ==
  /\ Arrives("heater_set", "none", None)
  /\ IF heater_name \notin HeaterNames
     THEN Respond(400)
     ELSE \/ /\ h_pc' = "sh_cache" /\ h_heater' = heater_name /\ h_value' = value
             /\ UNCHANGED <<h_hi, h_resp>>
          \/ \* the HAL write raises: caught, False, 400
             Respond(400)
  /\ UNCHANGED <<current_state, state_entry_time, current_temperatures,
                 current_heater_values, update_num, setpoint, integral,
                 current_value>>
  /\ HandlerFrame

\* an override that also latches the value as the heater's target
set_heater_value_latches ==
  /\ h_pc = "sh_cache"
  /\ current_heater_values' = [current_heater_values EXCEPT
                                 ![h_heater] = Some(h_value)]
  /\ setpoint' = [x \in PidHeaters |->
                    IF x = h_heater THEN h_value ELSE setpoint[x]]
  /\ current_value' = [x \in DirectHeaters |->
                         IF x = h_heater THEN Some(h_value)
                         ELSE current_value[x]]
  /\ Respond(200)
  /\ UNCHANGED <<current_state, state_entry_time, current_temperatures,
                 update_num, integral>>
  /\ UNCHANGED <<h_kind, h_new, h_pw, h_time, h_count, pause_returned,
                 l_after_pause>>
  /\ HandlerFrame

\* self.current_heater_values[heater_name] = value (812), return True
set_heater_value_cache ==
  /\ h_pc = "sh_cache"
  /\ current_heater_values' = [current_heater_values EXCEPT
                                 ![h_heater] = Some(h_value)]
  /\ Respond(200)
  /\ UNCHANGED <<current_state, state_entry_time, current_temperatures,
                 update_num, setpoint, integral, current_value>>
  /\ UNCHANGED <<h_kind, h_new, h_pw, h_time, h_count, pause_returned,
                 l_after_pause>>
  /\ HandlerFrame

\* the response is sent; the event loop takes the next request
handler_done ==
  /\ h_pc = "done"
  /\ h_pc' = "idle" /\ h_kind' = "none" /\ h_resp' = 0
  /\ h_new' = "none" /\ h_pw' = None /\ h_time' = 0
  /\ pause_returned' = (h_kind = "pause" /\ h_resp = 200)
  /\ UNCHANGED <<runtime, h_hi, h_heater, h_value, h_count, l_after_pause>>
  /\ HandlerFrame

HandlerNext ==
  \/ \E state \in ReqStates, password \in ReqPasswords :
       set_state(state, password)
  \/ \E state \in FormStates, password \in ReqPasswords :
       set_state_form(state, password)
  \/ \E state \in LinkStates : set_state_link(state)
  \/ pause_system_endpoint
  \/ \E target \in ResumeTargets :
       resume_system_endpoint(target)
  \/ handler_make_transition_state
  \/ handler_make_transition_time
  \/ handler_make_transition_setpoints
  \/ \E heater_name \in ReqHeaters, value \in ReqValues :
       set_heater_value_endpoint(heater_name, value)
  \/ set_heater_value_cache
  \/ handler_done

\* handler_done and run_sleep touch nothing shared, so each runs before the
\* other thread's next step
Next ==
  \/ h_pc # "done" /\ Tick
  \/ h_pc # "done" /\ LoopNext
  \/ l_pc # "tick_done" /\ HandlerNext

Spec == Init /\ [][Next]_vars

\* The control loop alone: no request arrives.
InitLoop ==
  /\ cfg \in LoopConfigIds
  /\ limits = [time |-> MaxLoopTime, requests |-> 0]
  /\ Started
  /\ hal = HalOff /\ probe = ProbeOff

NextLoop ==
  \/ Tick
  \/ LoopNext

SpecLoop == InitLoop /\ [][NextLoop]_vars

\* The loop without a horizon.  time.time() and update_num grow without
\* bound, and the loop only looks at differences (now - state_entry_time,
\* now against the wake-up time), so at the horizon one more unit of sleep
\* moves the time origin along instead of the clock: the wake-up time comes
\* one unit nearer, the times kept from earlier ticks fall one unit back (an
\* elapsed time beyond every max_seconds stays there), and the tick counter
\* starts again.
sleep_on ==
  /\ l_pc = "sleep" /\ now < l_wake /\ now = limits.time
  /\ l_wake' = l_wake - 1
  /\ state_entry_time' = IF state_entry_time > -1 THEN state_entry_time - 1
                         ELSE -1
  /\ l_now' = IF l_now > -1 THEN l_now - 1 ELSE -1
  /\ update_num' = 0
  /\ UNCHANGED <<cfg, now, current_state, current_temperatures,
                 current_heater_values, setpoint, integral, current_value,
                 l_pc, l_ti, l_timeout, l_by, l_hi, l_start_num, l_result,
                 hal_writes, paused_write, l_after_pause, handlervars,
                 pause_returned, envvars>>

NextLive ==
  \/ Tick
  \/ sleep_on
  \/ LoopNext

\* the loop thread is a daemon thread of a running process: it is scheduled
\* (every HAL call it makes returns or raises), and time passes while it
\* sleeps
SpecLive ==
  /\ InitLoop /\ [][NextLive]_vars
  /\ WF_vars(LoopNext) /\ WF_vars(Tick \/ sleep_on)

\* The request handlers alone: the loop thread sleeps through the horizon.
InitRequests ==
  /\ cfg \in ConfigIds
  /\ limits = [time |-> MaxTime, requests |-> MaxManual]
  /\ Started
  /\ hal = HalOff /\ probe = ProbeOff

NextRequests ==
  \/ now < limits.time /\ now' = now + 1
       /\ UNCHANGED <<cfg, runtime, loopvars, l_after_pause, handlervars,
                      pause_returned, envvars>>
  \/ HandlerNext

SpecRequests == InitRequests /\ [][NextRequests]_vars


-----------------------------------------------------------------------------
(* The HAL server (fridgeos/hal.py): the device registry, its read and      *)
(* write operations and the endpoints in front of them.  Its handlers run   *)
(* one at a time; each action is one request.                               *)

\* load_hardware: the registry.  conversion_csv is None when the key is
\* absent from the thermometer's table.
hardware ==
  [thermometers |-> [T1 |-> [conversion_csv |-> None],
                     T2 |-> [conversion_csv |-> Some("curve.csv")]],
   heaters |-> [H1 |-> [max_value |-> HalMax["H1"]],
                H2 |-> [max_value |-> HalMax["H2"]]]]

HalThermometers == DOMAIN hardware.thermometers
HalHeaters == DOMAIN hardware.heaters

\* _load_calibration_curve: the rows of the CSV file, [temperature, raw];
\* curve.csv is the file the hardware configuration names, the others are
\* the same kind of table listed by rising and by falling raw value
Row(t, r) == [temperature |-> t, raw |-> r]

calibration_curves ==
  ("curve.csv" :> << Row(4, 1), Row(0, 3) >>)
    @@ ("rising.csv" :> << Row(8, 2), Row(0, 6) >>)
    @@ ("falling.csv" :> << Row(0, 6), Row(8, 2) >>)
    @@ ("rising3.csv" :> << Row(8, 2), Row(4, 4), Row(0, 8) >>)
    @@ ("falling3.csv" :> << Row(0, 8), Row(4, 4), Row(8, 2) >>)

\* np.interp(x, xp, fp) as numpy computes it, without a look at the order of
\* xp: fp's last value for x above xp's last value, fp's first value for x
\* below xp's first value, else linear from the last point of the leading
\* run of points not above x
RECURSIVE interp_search(_, _, _)
interp_search(x, xp, i) ==
  IF i < Len(xp) /\ x >= xp[i + 1] THEN interp_search(x, xp, i + 1) ELSE i

interp(x, xp, fp) ==
  IF x > xp[Len(xp)] THEN fp[Len(fp)]
  ELSE IF x < xp[1] THEN fp[1]
  ELSE LET j == interp_search(x, xp, 1)
       IN IF j = Len(xp) \/ xp[j] = x THEN fp[j]
          ELSE fp[j] + ((x - xp[j]) * (fp[j + 1] - fp[j])) \div (xp[j + 1] - xp[j])

\* _apply_calibration
apply_calibration(raw_value, csv_path) ==
  IF raw_value = None THEN None
  ELSE LET cal_array == calibration_curves[csv_path]
       IN Some(interp(raw_value[1],
                      [i \in 1..Len(cal_array) |-> cal_array[i].raw],
                      [i \in 1..Len(cal_array) |-> cal_array[i].temperature]))

\* a reading passed on as the driver gave it
get_temperature_unconverted(name, failing, raw) ==
  IF name \in failing THEN None ELSE raw[name]

\* get_temperature for a registered thermometer: the temp of {name: temp}.
\* failing holds the devices whose driver raises, raw what the others return.
get_temperature(name, failing, raw) ==
  IF name \in failing THEN None
  ELSE IF hardware.thermometers[name].conversion_csv # None
       THEN apply_calibration(raw[name],
                              hardware.thermometers[name].conversion_csv[1])
       ELSE raw[name]

\* get_temperatures
get_temperatures(failing, raw) ==
  [name \in HalThermometers |-> get_temperature(name, failing, raw)]

\* set_heater_value: the value handed to the driver
hal_set_value(name, value) ==
  IF value > hardware.heaters[name].max_value
  THEN hardware.heaters[name].max_value
  ELSE value

\* the except clauses of the endpoints: ValueError is answered 404, every
\* other Exception (KeyError, a driver's error, an HTTPException raised
\* inside the try) is answered 500
except_status(raised) == IF raised = "ValueError" THEN 404 ELSE 500

\* what drivers read, what requests name and carry
DriverReadings == {None} \cup {Some(v) : v \in {0, 2, 3}}
HalDevices == HalThermometers \cup HalHeaters
HalReqThermometers == HalThermometers \cup {"TX"}
HalReqHeaters == HalHeaters \cup {"HX"}
HalReqValues == {-1, 0, 1, 2, 3}

smvars == <<cfg, now, runtime, loopvars, l_after_pause, handlervars,
            pause_returned>>
HalFrame == UNCHANGED <<smvars, limits, probe>>

\* the HAL answers: status, the drivers it called, what it returned or wrote
HalAnswer(op, name, arg, status, calls, listing, value, wrote) ==
  hal' = [hal EXCEPT !.pc = "done", !.op = op, !.name = name, !.arg = arg,
                     !.status = status, !.calls = calls,
                     !.listing = listing, !.value = value, !.wrote = wrote]

\* GET /temperatures (148-154)
get_all_temperatures ==
  /\ hal.pc = "idle"
  /\ HalAnswer("get_temperatures", "none", 0, 200, HalThermometers,
               get_temperatures(hal.failing, hal.raw), None, None)
  /\ HalFrame

\* GET /temperature/{name} (156-170)
get_single_temperature(name) ==
  /\ hal.pc = "idle"
  /\ IF name \notin HalThermometers
     THEN HalAnswer("get_temperature", name, 0, except_status("ValueError"),
                    {}, EmptyMap, None, None)
     ELSE IF get_temperature(name, hal.failing, hal.raw) = None
     THEN HalAnswer("get_temperature", name, 0,
                    except_status("HTTPException"), {name}, EmptyMap, None,
                    None)
     ELSE HalAnswer("get_temperature", name, 0, 200, {name}, EmptyMap,
                    get_temperature(name, hal.failing, hal.raw), None)
  /\ HalFrame

\* GET /heater/{name}/value (180-189) -> get_heater_value (323-327)
get_single_heater_value(name) ==
  /\ hal.pc = "idle"
  /\ IF name \notin HalHeaters
     THEN HalAnswer("get_heater_value", name, 0, except_status("ValueError"),
                    {}, EmptyMap, None, None)
     ELSE IF name \in hal.failing
     THEN HalAnswer("get_heater_value", name, 0, except_status("DriverError"),
                    {name}, EmptyMap, None, None)
     ELSE HalAnswer("get_heater_value", name, 0, 200, {name}, EmptyMap, None,
                    None)
  /\ HalFrame

\* PUT /heater/{name}/value (191-204) -> set_heater_value (329-336): the
\* max value is looked up by name before get_hardware is asked
set_single_heater_value(name, value) ==
  /\ hal.pc = "idle"
  /\ IF name \notin DOMAIN hardware.heaters
     THEN HalAnswer("set_heater_value", name, value, except_status("KeyError"),
                    {}, EmptyMap, None, None)
     ELSE IF name \in hal.failing
     THEN HalAnswer("set_heater_value", name, value,
                    except_status("DriverError"), {name}, EmptyMap, None,
                    Some(hal_set_value(name, value)))
     ELSE HalAnswer("set_heater_value", name, value, 200, {name}, EmptyMap,
                    None, Some(hal_set_value(name, value)))
  /\ HalFrame

\* the answer is sent; the next request is taken
hal_next_request ==
  /\ hal.pc = "done"
  /\ hal' = [hal EXCEPT !.pc = "idle", !.op = "none", !.name = "none",
                        !.arg = 0, !.status = 0, !.calls = {},
                        !.listing = EmptyMap, !.value = None, !.wrote = None]
  /\ HalFrame

InitHal ==
  /\ cfg = 1
  /\ limits = [time |-> 0, requests |-> 0]
  /\ Started
  /\ probe = ProbeOff
  /\ hal \in [pc : {"idle"}, failing : SUBSET HalDevices,
              raw : [HalThermometers -> DriverReadings],
              op : {"none"}, name : {"none"}, arg : {0}, status : {0},
              calls : {{}}, listing : {EmptyMap}, value : {None},
              wrote : {None}]

NextHal ==
  \/ get_all_temperatures
  \/ \E name \in HalReqThermometers : get_single_temperature(name)
  \/ \E name \in HalReqHeaters : get_single_heater_value(name)
  \/ \E name \in HalReqHeaters, value \in HalReqValues :
       set_single_heater_value(name, value)
  \/ hal_next_request

SpecHal == InitHal /\ [][NextHal]_vars

-----------------------------------------------------------------------------
(* check_transitions' test of one transition's criteria (741), taken alone: *)
(* the criteria and the HAL's answers are the inputs.                       *)

ProbeValues == {-1, 0, 1, 2, 3}
ProbeCriteria ==
  {Crit(sensor, op, v) : sensor \in Thermometers, op \in {"<", ">"},
                         v \in ProbeValues}

\* all(self._check_criterion(c) for c in t['criteria']) for a transition with
\* two criteria; results holds what each _check_criterion returns on its
\* listing
check_criteria_call ==
  /\ probe.pc = "call"
  /\ probe' = [probe EXCEPT
       !.pc = "done",
       !.results = [i \in 1..2 |->
                      check_criterion(probe.criteria[i], probe.listings[i])],
       !.taken = all_criteria(probe.criteria, probe.listings)]
  /\ UNCHANGED <<smvars, limits, hal>>

InitCriterion ==
  /\ cfg = 1
  /\ limits = [time |-> 0, requests |-> 0]
  /\ Started
  /\ hal = HalOff
  /\ probe \in [pc : {"call"},
                criteria : [1..2 -> ProbeCriteria],
                listings : [1..2 -> TempListings],
                results : {[i \in 1..2 |-> FALSE]},
                taken : {FALSE}]

NextCriterion == check_criteria_call

SpecCriterion == InitCriterion /\ [][NextCriterion]_vars

-----------------------------------------------------------------------------
(* Construction (__init__, 33-79), taken alone: the input is the order in   *)
(* which the configuration file declares its [states.*] tables.             *)

MaxDeclared == 3

\* the [states.*] tables a file can declare, in file order: TOML keys are
\* distinct, and a file may name a table PAUSED itself
RECURSIVE Distinct(_)
Distinct(names) ==
  IF Len(names) <= 1 THEN TRUE
  ELSE /\ \A i \in 2..Len(names) : names[i] # names[1]
       /\ Distinct(Tail(names))

Declarations ==
  {d \in UNION {[1..n -> StateNames] : n \in 0..MaxDeclared} : Distinct(d)}

\* the key order of the dict _load_states returns: a declared PAUSED keeps
\* its place when parsed_states['PAUSED'] is assigned (671), an undeclared
\* one is inserted last
load_states(declared) ==
  IF \E i \in 1..Len(declared) : declared[i] = "PAUSED"
  THEN declared
  ELSE Append(declared, "PAUSED")

ConstructFrame ==
  UNCHANGED <<cfg, l_now, l_ti, l_timeout, l_by, l_hi, l_wake, l_start_num,
              l_result, hal_writes, paused_write, l_after_pause, handlervars,
              pause_returned, limits, hal>>

\* self.states = self._load_states(config_path) (50)
construct_load_states ==
  /\ probe.pc = "new"
  /\ probe' = [probe EXCEPT !.pc = "loaded",
                            !.keys = load_states(probe.declared)]
  /\ UNCHANGED <<now, runtime, l_pc>>
  /\ ConstructFrame

\* the first key becomes current_state, the other fields start empty (58-64)
construct_fields ==
  /\ probe.pc = "loaded"
  /\ probe' = [probe EXCEPT !.pc = "fields"]
  /\ current_state' = probe.keys[1]
  /\ state_entry_time' = now
  /\ current_temperatures' = [t \in Thermometers |-> Absent]
  /\ current_heater_values' = [h \in HeaterNames |-> Absent]
  /\ update_num' = 0
  /\ UNCHANGED <<now, setpoint, integral, current_value, l_pc>>
  /\ ConstructFrame

\* self.update_heater_setpoints(self.current_state) (71)
construct_setpoints ==
  /\ probe.pc = "fields"
  /\ probe' = [probe EXCEPT !.pc = "setpoints"]
  /\ setpoint' = [h \in PidHeaters |->
                    setpoint_for(h, current_state, setpoint[h])]
  /\ current_value' = [h \in DirectHeaters |->
                         current_value_for(h, current_state, current_value[h])]
  /\ UNCHANGED <<now, current_state, state_entry_time, current_temperatures,
                 current_heater_values, update_num, integral, l_pc>>
  /\ ConstructFrame

\* self._start_state_machine_loop() (76): the loop thread exists from here
start_state_machine_loop ==
  /\ probe.pc = "setpoints"
  /\ probe' = [probe EXCEPT !.pc = "running"]
  /\ l_pc' = "sleep"
  /\ UNCHANGED <<now, runtime>>
  /\ ConstructFrame

InitConstruct ==
  /\ cfg = 1
  /\ limits = [time |-> 0, requests |-> 0]
  /\ hal = HalOff
  /\ probe \in [pc : {"new"}, declared : Declarations, keys : {<<>>}]
  /\ now = 0
  /\ current_state = "unset"
  /\ state_entry_time = 0
  /\ current_temperatures = [t \in Thermometers |-> Absent]
  /\ current_heater_values = [h \in HeaterNames |-> Absent]
  /\ update_num = 0
  /\ setpoint = [h \in PidHeaters |-> 0]
  /\ integral = [h \in PidHeaters |-> 0]
  /\ current_value = [h \in DirectHeaters |-> None]
  /\ l_pc = "off" /\ l_now = 0 /\ l_ti = 0 /\ l_timeout = None
  /\ l_by = "none" /\ l_hi = 0 /\ l_wake = 0 /\ l_start_num = 0
  /\ l_result = "none"
  /\ hal_writes = NoWrites /\ paused_write = FALSE /\ l_after_pause = FALSE
  /\ h_pc = "idle" /\ h_kind = "none" /\ h_new = "none" /\ h_pw = None
  /\ h_hi = 0
  /\ h_heater = "none" /\ h_value = 0
  /\ h_time = 0 /\ h_resp = 0 /\ h_count = 0 /\ pause_returned = FALSE

NextConstruct ==
  \/ construct_load_states
  \/ construct_fields
  \/ construct_setpoints
  \/ start_state_machine_loop

SpecConstruct == InitConstruct /\ [][NextConstruct]_vars

-----------------------------------------------------------------------------
(* GET /info (153-172) beside the control loop: the handler reads the       *)
(* fields in one step, the loop thread writes them one statement at a time. *)

\* the fields of the response that the control loop writes
info ==
  /\ Arrives("info", "none", None)
  /\ probe' = [pc |-> "info",
               body |-> [current_state |-> current_state,
                         current_temperatures |-> current_temperatures,
                         current_heater_values |-> current_heater_values,
                         update_num |-> update_num]]
  /\ Respond(200)
  /\ UNCHANGED <<cfg, now, runtime, loopvars, limits, hal>>

\* the response is sent
info_sent ==
  /\ h_pc = "done" /\ h_kind = "info"
  /\ h_pc' = "idle" /\ h_kind' = "none" /\ h_resp' = 0
  /\ probe' = ProbeOff
  /\ UNCHANGED <<cfg, now, runtime, loopvars, limits, hal, h_new, h_pw, h_hi,
                 h_heater, h_value, h_time, h_count, pause_returned,
                 l_after_pause>>

InitInfo ==
  /\ cfg = 1
  /\ limits = [time |-> MaxTime, requests |-> MaxRequests]
  /\ Started
  /\ hal = HalOff /\ probe = ProbeOff

NextInfo ==
  \/ h_pc # "done" /\ Tick
  \/ h_pc # "done" /\ LoopNext
  \/ info
  \/ info_sent

SpecInfo == InitInfo /\ [][NextInfo]_vars

-----------------------------------------------------------------------------
(* _apply_calibration (253-263), taken alone: the inputs are the table and  *)
(* the raw reading.                                                         *)

MaxRaw == 10

RawReadings == {None} \cup {Some(v) : v \in 0..MaxRaw}

apply_calibration_call ==
  /\ probe.pc = "call"
  /\ probe' = [probe EXCEPT
       !.pc = "done",
       !.result = apply_calibration(probe.raw_value, probe.csv_path)]
  /\ UNCHANGED <<smvars, limits, hal>>

InitCalibration ==
  /\ cfg = 1
  /\ limits = [time |-> 0, requests |-> 0]
  /\ Started
  /\ hal = HalOff
  /\ probe \in [pc : {"call"},
                csv_path : DOMAIN calibration_curves,
                raw_value : RawReadings,
                result : {None}]

NextCalibration == apply_calibration_call

SpecCalibration == InitCalibration /\ [][NextCalibration]_vars

-----------------------------------------------------------------------------
(* Properties *)

\* a step of the control loop thread / of the request handler
LoopStep == <<l_pc, l_ti, l_hi>>' # <<l_pc, l_ti, l_hi>>
HandlerStep == handlervars' # handlervars

\* the handler is inside make_transition: current_state is written, the
\* entry time or the setpoints are not yet
HandlerInMakeTransition == h_pc \in {"mt_time", "mt_sp"}

\* C1: the control loop emits no heater write while current_state = PAUSED,
\* and a tick that begins after pause_system returned (no request since)
\* writes no heater value.
C1_NoWriteWhilePaused ==
  /\ ~paused_write
  /\ l_after_pause => hal_writes = NoWrites

\* C2: the control loop never moves the machine out of PAUSED: a step that
\* takes current_state from PAUSED to another state is not a loop step.
C2_LoopNeverLeavesPaused ==
  [][current_state = "PAUSED" /\ current_state' # "PAUSED" => ~LoopStep]_vars

\* C3: an external make_transition is atomic for the control loop: while the
\* handler is between its writes the loop neither runs its own
\* make_transition nor reads current_state.
C3_MakeTransitionAtomic ==
  [][HandlerInMakeTransition
       /\ l_pc \in {"sleep", "ct_from", "ct_timeout", "at_make", "mt_time",
                    "mt_sp", "uh_count"}
     => ~LoopStep]_vars

\* C4 as stated: every heater write of a tick is within [0, max_value].
C4_AllWritesBounded ==
  \A h \in HeaterNames :
    hal_writes[h] # None =>
      0 <= hal_writes[h][1] /\ hal_writes[h][1] <= HalMax[h]

\* C5: a transition the loop decides to take is justified when it is
\* evaluated: current_state is in its from set, and all its criteria held or
\* its own max_seconds is set and exceeded.
C5_TransitionJustified ==
  [][/\ (l_pc = "ct_from" /\ l_pc' = "ct_timeout"
           => current_state \in transitions[l_ti].from)
     /\ (l_pc # "at_make" /\ l_pc' = "at_make"
           => \/ l_by' = "criteria"
              \/ /\ transitions[l_ti].max_seconds # None
                 /\ l_now - state_entry_time > transitions[l_ti].max_seconds[1])
    ]_vars

\* C6: when make_transition(S) returns True, current_state = S and
\* state_entry_time is the time that call stored.
C6_PostMakeTransition ==
  [][/\ (h_pc \in {"mt_time", "mt_sp"} /\ h_pc' = "done"
           => /\ current_state' = h_new
              /\ (h_pc = "mt_sp" => state_entry_time' = h_time))
     /\ (l_pc \in {"mt_time", "mt_sp"} /\ l_pc' = "uh_temps"
           => current_state' = transitions[l_ti].to)
    ]_vars

SetStateKinds == {"set_state", "set_state_form", "set_state_link"}
TransitionFields == <<current_state, state_entry_time, setpoint, current_value>>

\* C7: make_transition(S) with S undeclared returns failure and changes
\* neither current_state, state_entry_time, a setpoint nor a latched value.
C7_UnknownStateRejected ==
  [][/\ (HandlerStep /\ h_pc = "idle" /\ h_kind' \in SetStateKinds
           /\ h_new' \notin StateNames /\ h_resp' # 401
           => h_pc' = "done" /\ h_resp' = 400 /\ UNCHANGED TransitionFields)
     /\ (LoopStep /\ l_pc = "at_make" /\ transitions[l_ti].to \notin StateNames
           => l_pc' = "uh_temps" /\ UNCHANGED TransitionFields)
    ]_vars

\* PUT /state naming an undeclared state was answered 400
C7_Witness ==
  /\ h_pc = "done" /\ h_kind = "set_state" /\ h_new = "X" /\ h_resp = 400
  /\ required_password # None

\* C8 as stated: every finished tick raised update_num by exactly one.
C8_OnePerTick ==
  /\ l_pc # "sleep" => update_num >= l_start_num
  /\ l_pc = "tick_done" => update_num = l_start_num + 1

\* C8 amended: update_num never decreases; a tick raises it by exactly one
\* unless a HAL temperature read raised in it (in a criterion or in
\* update_heaters), and then leaves it unchanged.
C8_OnePerCountedTick ==
  /\ l_pc # "sleep" => update_num >= l_start_num
  /\ l_pc = "tick_done" =>
       update_num = l_start_num
                    + (IF l_result \in {"raised_criterion", "raised_temperatures"}
                       THEN 0 ELSE 1)

\* a tick whose heater write raised was counted
C8_Witness ==
  l_pc = "tick_done" /\ l_result = "raised_write" /\ update_num = l_start_num + 1

\* the request's password is the configured one, or none is configured
PasswordOk == required_password = None \/ h_pw = required_password

\* C9: PUT /state is answered 401 without a change when a password is
\* configured and the request's is absent or wrong; with the right password
\* (or none configured) and a declared state it runs make_transition, which
\* sets current_state to that state, and is answered 200.
C9_PasswordGate ==
  [][/\ (HandlerStep /\ h_pc = "idle" /\ h_kind' = "set_state" /\ ~PasswordOk'
           => /\ h_pc' = "done" /\ h_resp' = 401
              /\ UNCHANGED <<TransitionFields, current_heater_values>>)
     /\ (HandlerStep /\ h_pc = "idle" /\ h_kind' = "set_state" /\ PasswordOk'
           /\ h_new' \in StateNames
           => h_pc' = "mt_state")
     /\ (HandlerStep /\ h_kind = "set_state" /\ h_pc = "mt_state"
           => current_state' = h_new)
     /\ (HandlerStep /\ h_kind = "set_state" /\ h_pc' = "done"
           /\ h_pc \in {"mt_time", "mt_sp"}
           => h_resp' = 200)
    ]_vars

\* PUT /state with a wrong password was answered 401
C9_Witness ==
  /\ h_pc = "done" /\ h_kind = "set_state" /\ h_resp = 401
  /\ required_password = Some("hunter2") /\ h_pw = Some("")
  /\ h_new \in StateNames

OverrideFields == <<current_state, state_entry_time, current_heater_values,
                    setpoint, current_value>>

\* C10 as stated: with a password configured, a request that does not carry
\* it changes none of the runtime fields.
C10_OnlyAuthenticated ==
  [][required_password # None /\ HandlerStep /\ h_pw' # required_password
       /\ h_pw # required_password
     => UNCHANGED OverrideFields]_vars

\* C10 amended: with a password configured, PUT /state and POST /control/set
\* without that password change none of the runtime fields, and neither does
\* GET /control/{state} when the password is not the empty string; pause,
\* resume and heater-set are not gated.
C10_StateChangeAuthenticated ==
  [][/\ required_password # None /\ HandlerStep
     /\ h_pw' # required_password /\ h_pw # required_password
     /\ \/ h_kind \in {"set_state", "set_state_form"}
        \/ h_kind' \in {"set_state", "set_state_form"}
        \/ /\ required_password # Some("")
           /\ (h_kind = "set_state_link" \/ h_kind' = "set_state_link")
     => UNCHANGED OverrideFields]_vars

\* GET /control/{state} was refused because a password is configured
C10_Witness ==
  /\ h_pc = "done" /\ h_kind = "set_state_link" /\ h_resp = 401
  /\ h_new \in StateNames

-----------------------------------------------------------------------------
(* Properties of the HAL server (SpecHal) *)

\* the temperature the curve of T2 gives a raw value: the line through
\* (raw 1, 4) and (raw 3, 0), held at its end values outside
ExpectedReading(name, r) == IF name = "T2" THEN Clamp(6 - 2 * r, 0, 4) ELSE r

C12_WriteClamped ==
  hal.pc = "done" /\ hal.op = "set_heater_value" /\ hal.wrote # None =>
    hal.wrote = Some(Clamp(hal.arg, 0, hardware.heaters[hal.name].max_value))

\* C13: an operation naming an unregistered device is answered 404 with no
\* driver call; a driver failure on a registered heater is answered 500.
C13_UnknownDevice404 ==
  hal.pc = "done" =>
    /\ (hal.op = "get_temperature" /\ hal.name \notin HalThermometers
          => hal.status = 404 /\ hal.calls = {})
    /\ (hal.op \in {"get_heater_value", "set_heater_value"}
          /\ hal.name \notin HalHeaters
          => hal.status = 404 /\ hal.calls = {})
    /\ (hal.op \in {"get_heater_value", "set_heater_value"}
          /\ hal.name \in HalHeaters /\ hal.name \in hal.failing
          => hal.status = 500)

\* C14: GET /temperature/{name} for a registered thermometer is answered 422
\* when its driver raised and 200 with the reading when it read a number.
C14_NullReading422 ==
  hal.pc = "done" /\ hal.op = "get_temperature"
    /\ hal.name \in HalThermometers =>
    IF hal.name \in hal.failing THEN hal.status = 422
    ELSE hal.raw[hal.name] # None =>
           /\ hal.status = 200
           /\ hal.value = Some(ExpectedReading(hal.name, hal.raw[hal.name][1]))

-----------------------------------------------------------------------------
(* Properties of the request handlers taken alone (SpecRequests) *)

\* C15: resume_system fails and leaves current_state, state_entry_time and the
\* setpoints unchanged when the machine is not PAUSED, and when it is PAUSED
\* but the target is not a declared state.
C15_ResumeRefused ==
  [][HandlerStep /\ h_pc = "idle" /\ h_kind' = "resume"
       /\ (current_state # "PAUSED" \/ h_new' \notin StateNames)
     => /\ h_pc' = "done" /\ h_resp' # 200
        /\ UNCHANGED TransitionFields]_vars

\* a paused machine refused to resume to the undeclared X and is still PAUSED
C15_Witness ==
  /\ h_pc = "done" /\ h_kind = "resume" /\ h_new = "X" /\ h_resp = 500
  /\ current_state = "PAUSED"

\* C16: pause_system always succeeds and leaves current_state = PAUSED; called
\* on a paused machine it changes neither state_entry_time nor a setpoint.
C16_PauseIdempotent ==
  [][/\ (HandlerStep /\ h_pc = "idle" /\ h_kind' = "pause"
           /\ current_state = "PAUSED"
           => /\ h_pc' = "done" /\ h_resp' = 200
              /\ UNCHANGED TransitionFields)
     /\ (HandlerStep /\ h_kind' = "pause" /\ h_pc' = "done"
           => h_resp' = 200 /\ current_state' = "PAUSED")
    ]_vars

\* pause was answered twice in a row, the second time after the clock moved,
\* and the entry time is still the first call's
C16_Witness ==
  /\ h_pc = "done" /\ h_kind = "pause" /\ h_resp = 200 /\ pause_returned
  /\ current_state = "PAUSED" /\ state_entry_time < now

-----------------------------------------------------------------------------
(* Properties of the control loop taken alone (SpecLoop) *)

\* check_transitions decides to take the transition l_ti
Decides == l_pc \in {"ct_timeout", "ct_elapsed"} /\ l_pc' = "at_make"

\* C17: a transition with an empty criteria list and a max_seconds is not
\* taken at a tick where now - state_entry_time <= max_seconds.
C17_EmptyCriteriaWaits ==
  [][Decides /\ transitions[l_ti].criteria = <<>>
       /\ transitions[l_ti].max_seconds # None
     => l_now - state_entry_time > transitions[l_ti].max_seconds[1]]_vars

\* the transition l_ti is the only one declared from current_state to its
\* target
DeclaredOnce(i) ==
  \A j \in 1..Len(transitions) :
    j # i => ~(/\ current_state \in transitions[j].from
               /\ transitions[j].to = transitions[i].to)

\* C18: a transition from the current state with max_seconds = M, declared
\* once for its pair of states, whose criteria do not hold at a tick is taken
\* at that tick exactly if more than M seconds have passed since the state
\* was entered, and then as a timeout firing.
C18_TimeoutBoundary ==
  [][l_pc = "ct_elapsed" /\ LoopStep
       /\ transitions[l_ti].max_seconds # None /\ DeclaredOnce(l_ti)
     => /\ l_pc' = "at_make"
             <=> l_now - state_entry_time > transitions[l_ti].max_seconds[1]
        /\ l_pc' = "at_make" => l_by' = "timeout"]_vars

\* configuration 4: the criterion T1 < 0 never held; A was entered at 0, the
\* ticks at 0 and 1 left it, the tick at 2 takes A -> B (M = 1)
C18_Witness ==
  /\ cfg = 4 /\ l_pc = "at_make" /\ l_ti = 1 /\ l_by = "timeout"
  /\ current_state = "A" /\ state_entry_time = 0 /\ l_now = 2

-----------------------------------------------------------------------------
(* Properties of the criteria test (SpecCriterion) *)

\* C19: a criterion whose sensor reading is null or missing from the listing
\* is false for both operators, and the transition holding it is not taken on
\* criteria; a criterion with a reading is the comparison of that reading.
C19_NullCriterionFalse ==
  probe.pc = "done" =>
    \A i \in 1..2 :
      LET c == probe.criteria[i]
          entry == probe.listings[i][c.sensor]
      IN IF entry \in {Absent, Null}
         THEN probe.results[i] = FALSE /\ probe.taken = FALSE
         ELSE probe.results[i] = IF c.op = "<" THEN entry[1][1] < c.value
                                 ELSE entry[1][1] > c.value

\* T1 < 1 on a null reading is false and T1 > 1 on a missing sensor is false,
\* though 0 < 1: the transition is not taken
C19_Witness ==
  /\ probe.pc = "done"
  /\ probe.criteria[1] = Crit("T1", "<", 1) /\ probe.listings[1]["T1"] = Null
  /\ probe.criteria[2] = Crit("T1", ">", -1)
  /\ probe.listings[2]["T1"] = Absent
  /\ probe.results = [i \in 1..2 |-> FALSE] /\ ~probe.taken

-----------------------------------------------------------------------------
(* Properties of the control loop taken alone (SpecLoop), continued *)

\* C20: a tick takes at most one transition, the first in declaration order
\* that fires from current_state: once one is decided no further transition
\* is evaluated in the tick, and no transition declared before it from
\* current_state has an empty criteria list or an exceeded timeout.
C20_FirstMatchOnly ==
  [][/\ (LoopStep /\ l_pc \in {"at_make", "mt_time", "mt_sp"}
           => l_pc' \in {"mt_time", "mt_sp", "uh_temps"})
     /\ (LoopStep /\ l_pc \in {"uh_temps", "uh_values", "uh_count", "uh_heater"}
           => l_pc' \in {"uh_values", "uh_count", "uh_heater", "tick_done"})
     /\ (Decides
           => \A j \in 1..(l_ti - 1) :
                current_state \in transitions[j].from
                => /\ transitions[j].criteria # <<>>
                   /\ ~(/\ state_timeouts(transitions, current_state,
                                          transitions[j].to) # None
                        /\ l_now - state_entry_time
                             > state_timeouts(transitions, current_state,
                                              transitions[j].to)[1]))
    ]_vars

\* configuration 6: the tick at 1 took A -> B on its criterion T1 > 1 and
\* ended in B, though B -> C is declared next and its timeout 0 has passed
C20_Witness ==
  /\ cfg = 6 /\ l_pc = "tick_done" /\ l_by = "criteria"
  /\ current_state = "B" /\ state_entry_time = 1 /\ l_now = 1 /\ now = 1

-----------------------------------------------------------------------------
(* Construction *)

\* what update_heater_setpoints(current_state) leaves behind for the targets
\* current_state defines
TargetsApplied ==
  /\ \A h \in PidHeaters :
       heaters[h].corresponding_thermometer \in DOMAIN states[current_state]
         => setpoint[h] =
              states[current_state][heaters[h].corresponding_thermometer]
  /\ \A h \in DirectHeaters :
       h \in DOMAIN states[current_state]
         => current_value[h] = Some(states[current_state][h])

\* C21: for every configuration, once __init__ has set the fields,
\* current_state is the first declared state and is not PAUSED, and when the
\* control loop is started update_heater_setpoints(current_state) has been
\* applied.
C21_StartsInFirstDeclared ==
  /\ probe.pc \in {"fields", "setpoints", "running"}
       => /\ Len(probe.declared) > 0
          /\ current_state = probe.declared[1]
          /\ current_state # "PAUSED"
  /\ l_pc # "off" => TargetsApplied

-----------------------------------------------------------------------------
(* Requests that are refused *)

\* C22: a PUT /state or POST /resume that is refused (unknown state, unknown
\* target_state, resume while not paused) is answered with status 400, not
\* 500, and leaves current_state unchanged.
C22_RefusedIs400 ==
  [][(/\ h_pc = "idle" /\ h_pc' = "done"
      /\ h_kind' \in {"set_state", "resume"}
      /\ h_resp' \notin {200, 401})
       => /\ h_resp' = 400
          /\ current_state' = current_state]_vars

-----------------------------------------------------------------------------
(* Readers *)

\* C23: the current_temperatures and update_num returned by one GET /info
\* belong to the same tick: no response holds the temperatures the running
\* tick has just read together with the update_num from before that tick.
C23_InfoSnapshot ==
  (h_pc = "done" /\ h_kind = "info")
    => ~(/\ l_pc \in {"uh_values", "uh_count"}
         /\ probe.body.current_temperatures = current_temperatures
         /\ probe.body.update_num = l_start_num)

-----------------------------------------------------------------------------
(* The order of a tick *)

\* C24: in a tick of the control loop in which a transition was decided,
\* every heater write uses the targets of the state the transition led to (a
\* PID heater is stepped against that state's setpoint, a direct heater gets
\* that state's value, where the state defines one), and a tick that has
\* moved to PAUSED emits no heater write.
C24_WritesUseNewTargets ==
  [][(l_by # "none" /\ LoopStep)
       => /\ (current_state = "PAUSED")
               => (l_pc # "uh_heater" /\ hal_writes' = NoWrites)
          /\ (l_pc = "uh_heater")
               => LET h == HeaterOrder[l_hi]
                      B == states[current_state]
                  IN IF heaters[h].pid
                     THEN LET th == heaters[h].corresponding_thermometer
                              T == current_temperatures[th]
                          IN (th \in DOMAIN B /\ T # Absent /\ T # Null)
                               => hal_writes'[h] =
                                    Some(pid_output(h, B[th], integral[h],
                                                    T[1][1]))
                     ELSE (h \in DOMAIN B)
                            => hal_writes'[h] = Some(B[h])]_vars

C24_Witness ==
  /\ l_pc = "tick_done" /\ l_result = "ok"
  /\ l_by = "criteria" /\ current_state = "B" /\ state_entry_time = l_now
  /\ hal_writes["H1"] # None
  /\ hal_writes["H2"] = Some(3)

-----------------------------------------------------------------------------
(* update_heater_setpoints *)

\* C25: update_heater_setpoints(state) changes only what the state defines.
\* A transition to PAUSED changes no setpoint and no latched value; for any
\* other state the PID heater's setpoint is replaced exactly if its
\* thermometer is a key of the state's targets, the direct heater's latched
\* value exactly if its own name is a key, and every other setpoint and
\* latched value keeps its prior value.
C25_SetpointsFrame ==
  [][HandlerStep
       => IF h_pc = "mt_sp"
          THEN LET h == HeaterOrder[h_hi]
                   target == states[h_new]
               IN /\ h_new # "PAUSED"
                  /\ \A x \in PidHeaters :
                       setpoint'[x] =
                         IF x = h /\ heaters[x].corresponding_thermometer
                                       \in DOMAIN target
                         THEN target[heaters[x].corresponding_thermometer]
                         ELSE setpoint[x]
                  /\ \A x \in DirectHeaters :
                       current_value'[x] =
                         IF x = h /\ x \in DOMAIN target
                         THEN Some(target[x])
                         ELSE current_value[x]
          ELSE UNCHANGED <<setpoint, current_value>>]_vars

\* B, then C: C defines the direct heater and not the PID heater's thermometer
C25_Witness ==
  /\ h_pc = "done" /\ h_kind = "set_state" /\ h_resp = 200
  /\ current_state = "C"
  /\ setpoint["H1"] = states["B"]["T1"]
  /\ current_value["H2"] = Some(states["C"]["H2"])

-----------------------------------------------------------------------------
(* The heater loop of update_heaters *)

\* the heater loop's step for heater h
HeaterStep(h) == LoopStep /\ l_pc = "uh_heater" /\ HeaterOrder[l_hi] = h

\* the tick goes on to the next heater, or ends without an exception
GoesOn ==
  IF l_hi = Len(HeaterOrder)
  THEN l_pc' = "tick_done" /\ l_result' = "ok"
  ELSE l_pc' = "uh_heater" /\ l_hi' = l_hi + 1

\* C26: in a non-PAUSED tick, a PID heater whose thermometer is null in, or
\* missing from, the tick's temperature snapshot receives no write and its
\* controller is not stepped, and the tick goes on to the other heaters.
C26_NoReadingNoWrite ==
  [][\A h \in PidHeaters :
       (/\ HeaterStep(h)
        /\ current_temperatures[heaters[h].corresponding_thermometer]
             \in {Absent, Null})
         => /\ hal_writes' = hal_writes
            /\ integral' = integral
            /\ GoesOn]_vars

C26_Witness ==
  /\ l_pc = "tick_done" /\ l_result = "ok" /\ current_state # "PAUSED"
  /\ current_temperatures["T1"] = Null
  /\ hal_writes["H1"] = None
  /\ current_value["H2"] # None /\ hal_writes["H2"] = current_value["H2"]

-----------------------------------------------------------------------------
(* A failed heater-values read *)

\* the step of update_heaters that reads the heater values stored a listing
StoredListing ==
  \E values \in HeaterListings :
    current_heater_values' = [h \in HeaterNames |-> Some(values[h])]

\* C28: when the heater-values read of a tick fails (no listing is stored),
\* current_heater_values keeps its prior snapshot and the tick continues:
\* update_num is incremented next and, if not PAUSED, the heater loop runs.
C28_ValuesReadFailure ==
  [][LoopStep
       => /\ (l_pc = "uh_values" /\ ~StoredListing)
               => /\ current_heater_values' = current_heater_values
                  /\ l_pc' = "uh_count"
          /\ (l_pc = "uh_count")
               => /\ update_num' = update_num + 1
                  /\ current_state # "PAUSED"
                       => (l_pc' = "uh_heater" /\ l_hi' = 1)]_vars

\* before any successful read the snapshot is empty: it still is at the end
\* of a counted tick that wrote a heater
C28_Witness ==
  /\ l_pc = "tick_done" /\ l_result = "ok" /\ current_state # "PAUSED"
  /\ current_heater_values = [h \in HeaterNames |-> Absent]
  /\ update_num = l_start_num + 1
  /\ hal_writes # NoWrites

-----------------------------------------------------------------------------
(* Liveness of the control loop *)

\* C29: the control loop never dies.  Whatever a tick raises, the tick ends
\* in run and a later tick starts; ticks start infinitely often.
C29_LoopNeverDies ==
  /\ []<><<check_transitions_begin>>_vars
  /\ (l_pc = "tick_done" /\ l_result # "ok")
       ~> (l_pc \notin {"sleep", "tick_done"})

\* a tick starts at time 1 with no tick counted yet: the tick at time 0 raised
C29_Witness ==
  /\ l_pc = "ct_from" /\ l_ti = 1
  /\ l_now = 1 /\ update_num = 0

-----------------------------------------------------------------------------
(* The heater override *)

\* C30: set_heater_value(name, v) for a configured heater whose HAL write
\* succeeds sets current_heater_values[name] = v and leaves current_state,
\* state_entry_time, every PID setpoint and every latched direct value
\* unchanged; only a configured heater gets that far, and a request that
\* fails (unknown heater, or the HAL write raises) changes nothing.
C30_OverrideFrame ==
  [][HandlerStep
       => /\ (h_pc = "idle" /\ h_kind' = "heater_set")
               => /\ UNCHANGED runtime
                  /\ \/ h_pc' = "done" /\ h_resp' = 400
                     \/ h_pc' = "sh_cache" /\ h_heater' \in HeaterNames
          /\ (h_pc = "sh_cache")
               => /\ h_pc' = "done" /\ h_resp' = 200
                  /\ current_heater_values' =
                       [h \in HeaterNames |->
                          IF h = h_heater THEN Some(h_value)
                          ELSE current_heater_values[h]]
                  /\ UNCHANGED <<current_state, state_entry_time, setpoint,
                                 current_value>>]_vars

C30_Witness ==
  /\ h_pc = "done" /\ h_kind = "heater_set" /\ h_resp = 200
  /\ \E v \in ReqValues : current_heater_values["H1"] = Some(v)

-----------------------------------------------------------------------------
(* Calibration *)

\* the linear interpolation of x over a table, whatever the order of its
\* rows: the temperature of the row with the least raw value at and below
\* it, of the row with the greatest at and above it, and between two
\* neighbouring rows the point on the line through them
Interpolated(table, x) ==
  LET rows == {table[i] : i \in 1..Len(table)}
      lo == CHOOSE a \in rows : \A b \in rows : a.raw <= b.raw
      hi == CHOOSE a \in rows : \A b \in rows : a.raw >= b.raw
  IN IF x <= lo.raw THEN lo.temperature
     ELSE IF x >= hi.raw THEN hi.temperature
     ELSE LET a == CHOOSE r \in rows :
                     /\ r.raw <= x
                     /\ \A q \in rows : q.raw <= x => q.raw <= r.raw
              b == CHOOSE r \in rows :
                     /\ r.raw > x
                     /\ \A q \in rows : q.raw > x => q.raw >= r.raw
          IN a.temperature
               + ((x - a.raw) * (b.temperature - a.temperature))
                   \div (b.raw - a.raw)

\* C31: the calibrated temperature is the linear interpolation of the raw
\* reading over the table, clamped to the nearest end row outside it, for
\* tables listed by rising and by falling raw value; a failed raw reading
\* yields null.
C31_CalibrationInterpolates ==
  probe.pc = "done" =>
    IF probe.raw_value = None THEN probe.result = None
    ELSE probe.result =
           Some(Interpolated(calibration_curves[probe.csv_path],
                             probe.raw_value[1]))

-----------------------------------------------------------------------------
(* PAUSED and the override *)

\* C32: while current_state = PAUSED no path writes a heater: the override
\* (POST /heater/set) makes no HAL write between a pause and the following
\* resume.
C32_NoOverrideWhilePaused ==
  [][(current_state = "PAUSED" /\ h_pc = "idle" /\ h_kind' = "heater_set")
       => h_pc' # "sh_cache"]_vars

-----------------------------------------------------------------------------
(* Targets and state *)

\* no thread is between make_transition's first write and its return
NoMakeTransition ==
  /\ l_pc \notin {"mt_time", "mt_sp"}
  /\ h_pc \notin {"mt_state", "mt_time", "mt_sp"}

\* C33: whenever no make_transition call is in progress and current_state is
\* not PAUSED, the heater targets agree with current_state: the PID setpoint
\* and the latched direct value equal the state's values where it defines
\* them, after any interleaving of the control loop and the request handlers.
C33_TargetsAgreeWithState ==
  (NoMakeTransition /\ current_state # "PAUSED") => TargetsApplied

-----------------------------------------------------------------------------
(* Criteria and snapshots *)

\* C34: when a transition with several criteria is taken because its
\* criteria hold, one of the get_temperatures results of that tick makes
\* every criterion of the transition true.
C34_OneSnapshot ==
  (probe.pc = "done" /\ probe.taken)
    => \E i \in 1..2 :
         \A j \in 1..2 : check_criterion(probe.criteria[j], probe.listings[i])

-----------------------------------------------------------------------------
(* Timeouts of transitions that share their states *)

\* C35: a declared transition is taken by timeout only by its own
\* max_seconds: never if it declares none, and if it declares M only when
\* more than M seconds have passed since the state was entered, whatever
\* another transition between the same states declares.
C35_OwnMaxSeconds ==
  [][(LoopStep /\ l_pc = "ct_elapsed" /\ l_pc' = "at_make")
       => /\ transitions[l_ti].max_seconds # None
          /\ l_now - state_entry_time > transitions[l_ti].max_seconds[1]]_vars

-----------------------------------------------------------------------------
(* A resume that succeeds *)

\* C36: whenever resume_system(target) returns success, current_state is
\* not PAUSED afterwards, for every target: absent, a declared state, the
\* name PAUSED.
C36_ResumeLeavesPaused ==
  (h_pc = "done" /\ h_kind = "resume" /\ h_resp = 200)
    => current_state # "PAUSED"

-----------------------------------------------------------------------------
(* A heater write that raises *)

\* C37: in a non-PAUSED tick, a HAL write that raises for one heater does not
\* keep the heaters after it from being written in that tick: at the end of
\* such a tick every direct heater with a latched value has been written.
C37_WriteFailureIsolated ==
  (l_pc = "tick_done" /\ l_result = "raised_write")
    => \A h \in DirectHeaters :
         current_value[h] # None => hal_writes[h] = current_value[h]

-----------------------------------------------------------------------------
(* Timeouts and the temperature read *)

\* C38: a timeout firing needs no temperature reading.  When check_transitions
\* comes to a transition from the current state whose max_seconds M has been
\* exceeded (no earlier-declared transition fired), the tick does not end
\* before that transition is taken, also when the temperature read raises.
C38_TimeoutNeedsNoReading ==
  [][(/\ LoopStep /\ l_pc = "ct_timeout"
      /\ transitions[l_ti].max_seconds # None /\ DeclaredOnce(l_ti)
      /\ l_now - state_entry_time > transitions[l_ti].max_seconds[1])
       => l_pc' \in {"ct_elapsed", "at_make"}]_vars

-----------------------------------------------------------------------------
(* current_state is declared *)

\* C39: in every reachable state current_state is a key of states (a
\* declared state or PAUSED), after any ticks and requests, also when a
\* transition names an undeclared to state; the control loop's transition to
\* an undeclared state leaves current_state and state_entry_time unchanged.
C39_StateDeclared ==
  /\ [](current_state \in StateNames)
  /\ [][(LoopStep /\ l_pc = "at_make" /\ transitions[l_ti].to \notin StateNames)
          => /\ UNCHANGED <<current_state, state_entry_time>>
             /\ l_pc' = "uh_temps"]_vars

\* configuration 3: the tick at 1 decided A -> X on T1 > 1, was refused, and
\* ended in A, entered at 0
C39_Witness ==
  /\ cfg = 3 /\ h_count = 0
  /\ l_pc = "tick_done" /\ l_by = "criteria" /\ l_now = 1
  /\ current_state = "A" /\ state_entry_time = 0

-----------------------------------------------------------------------------
(* The password on every state-change endpoint *)

\* C40: for every configured state_change_password, the empty string
\* included, none of PUT /state, POST /control/set and GET /control/{state}
\* changes current_state unless the request carries exactly that password.
C40_EndpointsAgree ==
  [][(/\ required_password # None /\ HandlerStep
      /\ (h_kind \in SetStateKinds \/ h_kind' \in SetStateKinds)
      /\ h_pw # required_password /\ h_pw' # required_password)
       => current_state' = current_state]_vars

=============================================================================
